---- MODULE Spec2Model ----
(***************************************************************************)
(* nn4md: a feed-forward neural net (one hidden layer) for a pulse         *)
(* induction metal detector.  The model follows nn4md.go: the package      *)
(* level network state, build / guess / learn, and the phases of main      *)
(* (dataset parsing, shuffle, training loop with its epoch boundary, test  *)
(* listing, JSON export, interactive inference).                           *)
(*                                                                         *)
(* Numbers.  A float64 x is modelled by the integer round(x * Unit), a     *)
(* fixed-point number with Unit == scaleIn, so that the division of a raw  *)
(* input field by scaleIn is exact.  Products are rounded to the nearest   *)
(* unit.  math.Exp is not available: logistic is the piecewise linear      *)
(* approximation of 1/(1+e^-x) with breakpoints 1, 2.375 and 5 (maximal    *)
(* error below 0.02), which is monotone, symmetric about (0, 1/2) and      *)
(* saturates at 0 and 1 as the float64 logistic does for large arguments.  *)
(* NaN and the infinities have no counterpart.                             *)
(***************************************************************************)
EXTENDS Integers, Sequences, FiniteSets, Bags, TLC

\* ---------------------------------------------------------------- constants
inputs == 8
defaultHiddens == 3
outputs == 2
learningSize == 110
testSize == 40
scaleIn == 1024
scaleOut == 1

\* one unit of the fixed-point numbers: 1.0
Unit == scaleIn
weightStart == Unit \div 10
defaultAlpha == Unit \div 10
errThreshold == Unit \div 100

\* ------------------------------------------------------------------- bounds
\* epochs after which the model stops following the (unbounded) training loop
MaxEpochs == 2
\* PRNG seeds 0..MaxSeed are given with -s
MaxSeed == 1
\* a hidden layer size other than the default, given with -h
AltHiddens == 1
\* index of the line of a data file that is malformed
BadRow == 1
\* argmax is checked on vectors with entries in -MaxVal..MaxVal (in units)
MaxVal == 5

\* ----------------------------------------------------------------- numerics
\* n/d for d > 0, rounded to the nearest integer
Round(n, d) == (2 * n + d) \div (2 * d)

\* x * y of two fixed-point numbers
Mul(x, y) == Round(x * y, Unit)

Abs(x) == IF x < 0 THEN -x ELSE x

RECURSIVE SumTo(_, _)
\* f[0] + ... + f[n]
SumTo(f, n) == IF n < 0 THEN 0 ELSE f[n] + SumTo(f, n - 1)

logisticPos(ax) ==
    IF ax >= 5 * Unit THEN Unit
    ELSE IF ax >= (19 * Unit) \div 8 THEN ax \div 32 + (27 * Unit) \div 32
    ELSE IF ax >= Unit THEN ax \div 8 + (5 * Unit) \div 8
    ELSE ax \div 4 + Unit \div 2

logistic(x) == IF x >= 0 THEN logisticPos(x) ELSE Unit - logisticPos(-x)

dLogistic(x) == Mul(x, Unit - x)

\* math/rand: a linear congruential generator stands for the library's source
randNext(x) == (x * 25173 + 13849) % 65536

RECURSIVE randAt(_, _)
\* the n-th number (n >= 1) drawn after rand.Seed(seed)
randAt(seed, n) == IF n = 0 THEN seed % 65536 ELSE randNext(randAt(seed, n - 1))

\* rnd(a, b) = a + (b-a)*rand.Float64(), for the generator's value x
rnd(a, b, x) == a + ((b - a) * x) \div 65536

\* rand.Intn(n), for the generator's value x
Intn(n, x) == (x \div 16) % n

\* f itself; the comparison has TLC tabulate a function it would otherwise
\* evaluate anew at each use of one of its values
Tab(f) == IF f = f THEN f ELSE f

mat1D(rows, value) == [i \in 0 .. rows - 1 |-> value]


mat2D(rows, cols) == [i \in 0 .. rows - 1 |-> [j \in 0 .. cols - 1 |-> 0]]

\* -------------------------------------------------------------------- state
VARIABLES
    pc,             \* the position of main
    hiddens, alpha, wSeed,              \* the flags -h, -r, -s
    trainDat, testDat,                  \* which train.dat / test.dat the run finds
    inAct, hidAct, outAct,              \* nodes activations
    hidWeights, outWeights,             \* nodes weights
    patterns, validationData,           \* the parsed data sets
    row,                                \* the line index i of the parse loops
    epoch, iteration, lSSE, lMSE, tSSE, tMSE, ok,
    jsonFile,                           \* the documents written to nn4md.json
    ansVec, ansNN,                      \* the vector classified last, its class
    rand,           \* the state of the math/rand generator
    parsed,         \* history: patterns as the parse loop left it
    lastGuess,      \* history: the argument of the latest guess call
    learnLog,       \* history: sample index and result of every learn call
    lastLearn,      \* history: what the latest learn call read and computed
    validated       \* history: the weights the latest validation pass ran on

vars == << pc, hiddens, alpha, wSeed, trainDat, testDat, inAct, hidAct, outAct,
           hidWeights, outWeights, patterns, validationData, row, epoch,
           iteration, lSSE, lMSE, tSSE, tMSE, ok, jsonFile, ansVec, ansNN,
           rand, parsed, lastGuess, learnLog, lastLearn, validated >>

flagVars == << hiddens, alpha, wSeed, trainDat, testDat >>
netVars == << inAct, hidAct, outAct, hidWeights, outWeights >>
actVars == << inAct, hidAct, outAct >>
weightVars == << hidWeights, outWeights >>
trainVars == << epoch, iteration, lSSE, lMSE, tSSE, tMSE, ok >>
histVars == << parsed, lastGuess, learnLog, lastLearn, validated >>

\* the network, as one value
Net == [inAct |-> inAct, hidAct |-> hidAct, outAct |-> outAct,
        hidWeights |-> hidWeights, outWeights |-> outWeights]

\* ------------------------------------------------------------------ network
\* net init; the k-th call of rnd draws the k-th number after rand.Seed(seed)
build(nIn, nHid, nOut, seed) ==
    [inAct |-> mat1D(nIn + 1, Unit),
     hidAct |-> mat1D(nHid + 1, Unit),
     outAct |-> mat1D(nOut, Unit),
     hidWeights |-> [i \in 0 .. nIn |-> [j \in 0 .. nHid - 1 |->
         rnd(-weightStart, weightStart, randAt(seed, i * nHid + j + 1))]],
     outWeights |-> [i \in 0 .. nHid |-> [j \in 0 .. nOut - 1 |->
         rnd(-weightStart, weightStart,
             randAt(seed, (nIn + 1) * nHid + i * nOut + j + 1))]]]

\* a mutant of guess: the input activations are rebuilt without the bias
guessDropsBias(net, inputLayer) ==
    LET in == Tab([i \in DOMAIN net.inAct |->
                  IF i < inputs THEN inputLayer[i] ELSE 0])
        hid == Tab([i \in DOMAIN net.hidAct |->
                  IF i < hiddens
                  THEN logistic(SumTo([j \in 0 .. inputs |->
                           Mul(in[j], net.hidWeights[j][i])], inputs))
                  ELSE net.hidAct[i]])
        out == Tab([i \in DOMAIN net.outAct |->
                  IF i < outputs
                  THEN logistic(SumTo([j \in 0 .. hiddens |->
                           Mul(hid[j], net.outWeights[j][i])], hiddens))
                  ELSE net.outAct[i]])
    IN  [net EXCEPT !.inAct = in, !.hidAct = hid, !.outAct = out]

\* net solve: the network after guess(inputLayer); its outAct is the result
guess(net, inputLayer) ==
    LET in == Tab([i \in DOMAIN net.inAct |->
                  IF i < inputs THEN inputLayer[i] ELSE net.inAct[i]])
        hid == Tab([i \in DOMAIN net.hidAct |->
                  IF i < hiddens
                  THEN logistic(SumTo([j \in 0 .. inputs |->
                           Mul(in[j], net.hidWeights[j][i])], inputs))
                  ELSE net.hidAct[i]])
        out == Tab([i \in DOMAIN net.outAct |->
                  IF i < outputs
                  THEN logistic(SumTo([j \in 0 .. hiddens |->
                           Mul(hid[j], net.outWeights[j][i])], hiddens))
                  ELSE net.outAct[i]])
    IN  [net EXCEPT !.inAct = in, !.hidAct = hid, !.outAct = out]

\* outDeltas[j]; the loop writes it once per row i, each time from outAct[j]
\* and targets[j] alone
learnOutDeltas(net, targets) ==
    [j \in 0 .. outputs - 1 |->
        Mul(dLogistic(net.outAct[j]), net.outAct[j] - targets[j])]

\* output layer weights update
learnOutWeights(net, outDeltas, a) ==
    [i \in DOMAIN net.outWeights |-> [j \in DOMAIN net.outWeights[i] |->
        IF i < hiddens + 1 /\ j < outputs
        THEN net.outWeights[i][j] - Mul(a, Mul(outDeltas[j], net.hidAct[i]))
        ELSE net.outWeights[i][j]]]

\* hidDeltas, summed over the output weights ow
learnHidDeltas(net, outDeltas, ow) ==
    [i \in 0 .. hiddens - 1 |->
        Mul(dLogistic(net.hidAct[i]),
            SumTo([j \in 0 .. outputs - 1 |-> Mul(outDeltas[j], ow[i][j])],
                  outputs - 1))]

\* hidden layer weights update
learnHidWeights(net, hidDeltas, a) ==
    [i \in DOMAIN net.hidWeights |-> [j \in DOMAIN net.hidWeights[i] |->
        IF i < inputs + 1 /\ j < hiddens
        THEN net.hidWeights[i][j] - Mul(a, Mul(hidDeltas[j], net.inAct[i]))
        ELSE net.hidWeights[i][j]]]

learnSSE(net, targets) ==
    SumTo([i \in 0 .. outputs - 1 |->
              Mul(targets[i] - net.outAct[i], targets[i] - net.outAct[i])],
          outputs - 1)

\* a mutant of learn: the hidden deltas are summed over the output weights
\* as they were before the update (the textbook order)
learnTextbook(net, targets, a) ==
    LET outDeltas == Tab(learnOutDeltas(net, targets))
        ow == Tab(learnOutWeights(net, outDeltas, a))
        hidDeltas == Tab(learnHidDeltas(net, outDeltas, net.outWeights))
        hw == Tab(learnHidWeights(net, hidDeltas, a))
    IN  [net |-> [net EXCEPT !.outWeights = ow, !.hidWeights = hw],
         sse |-> learnSSE(net, targets),
         outDeltas |-> outDeltas, hidDeltas |-> hidDeltas]

\* net learn: the network after learn(targets, a), the returned sse, and the
\* two local delta vectors
learn(net, targets, a) ==
    LET outDeltas == Tab(learnOutDeltas(net, targets))
        ow == Tab(learnOutWeights(net, outDeltas, a))
        hidDeltas == Tab(learnHidDeltas(net, outDeltas, ow))
        hw == Tab(learnHidWeights(net, hidDeltas, a))
    IN  [net |-> [net EXCEPT !.outWeights = ow, !.hidWeights = hw],
         sse |-> learnSSE(net, targets),
         outDeltas |-> outDeltas, hidDeltas |-> hidDeltas]

\* --------------------------------------------------------------- data files
TAB == "\t"
NL == "\n"
DigitChars == << "0", "1", "2", "3", "4", "5", "6", "7", "8", "9" >>

IsDigit(c) == \E d \in 1 .. 10 : DigitChars[d] = c

DigitValue(c) == (CHOOSE d \in 1 .. 10 : DigitChars[d] = c) - 1

RECURSIVE Digits(_)
\* the decimal numeral of n >= 0
Digits(n) ==
    IF n < 10 THEN << DigitChars[n + 1] >>
    ELSE Append(Digits(n \div 10), DigitChars[(n % 10) + 1])

\* the fields of the well-formed line i: inputs input fields (the first one
\* numbers the line, the others tell the class), then outputs target fields
rowFields(i, base) ==
    [k \in 1 .. inputs + outputs |->
        IF k = 1 THEN Digits(base + i)
        ELSE IF k <= inputs THEN Digits((i % 2) * scaleIn)
        ELSE IF (k - inputs - 1) = (i % 2) THEN << "1" >> ELSE << "0" >>]

RECURSIVE joinFields(_, _)
\* the first k fields, each followed by a TAB but the last
joinFields(fields, k) ==
    IF k = 0 THEN << >>
    ELSE IF k = 1 THEN fields[1]
    ELSE joinFields(fields, k - 1) \o << TAB >> \o fields[k]

\* the kinds of data file a run may find
FileKinds == { "ok", "missing", "short", "empty", "long", "noeol", "fields9",
               "fields7", "fields11", "nonnum", "blank" }

\* the number of lines of a file of this kind, n being the expected number
lineCount(kind, n) ==
    IF kind = "short" THEN n - 1
    ELSE IF kind = "empty" THEN 0
    ELSE IF kind = "long" THEN n + 1
    ELSE n

\* line i (from 0) of the file; every line ends with NL but, in a file of
\* kind "noeol", the last one
fileLine(kind, n, base, i) ==
    LET good == rowFields(i, base)
        all == inputs + outputs
    IN  IF kind = "noeol" /\ i = n - 1 THEN joinFields(good, all)
        ELSE IF i # BadRow THEN joinFields(good, all) \o << NL >>
        ELSE IF kind = "fields9" THEN joinFields(good, all - 1) \o << NL >>
        ELSE IF kind = "fields7" THEN joinFields(good, inputs - 1) \o << NL >>
        ELSE IF kind = "fields11"
             THEN joinFields(good, all) \o << TAB, "1", NL >>
        ELSE IF kind = "nonnum"
             THEN joinFields([good EXCEPT ![2] = << "x" >>], all) \o << NL >>
        ELSE IF kind = "blank" THEN << NL >>
        ELSE joinFields(good, all) \o << NL >>

\* os.Open: the error
openFails(kind) == kind = "missing"

\* reader.ReadString('\n') of the i-th call: the line and whether err # nil
ReadString(kind, n, base, i) ==
    IF i < lineCount(kind, n)
    THEN LET l == fileLine(kind, n, base, i)
         IN  [line |-> l, err |-> (Len(l) = 0 \/ l[Len(l)] # NL)]
    ELSE [line |-> << >>, err |-> TRUE]

RECURSIVE Decimal(_)
Decimal(value) ==
    IF Len(value) = 0 THEN 0
    ELSE 10 * Decimal(SubSeq(value, 1, Len(value) - 1))
           + DigitValue(value[Len(value)])

\* strconv.ParseFloat(value, 64), on numerals of digits
ParseFloat(value) ==
    IF Len(value) = 0 \/ \E k \in 1 .. Len(value) : ~IsDigit(value[k])
    THEN [val |-> 0, err |-> TRUE]
    ELSE [val |-> Decimal(value) * Unit, err |-> FALSE]

RECURSIVE scanLine(_, _, _, _, _, _)
\* the loop over the bytes of one line, from byte j on: the sample rec
\* (rec[0] the inputs, rec[1] the targets) as the loop leaves it, the value of
\* err after it, and whether the loop panicked (an index out of range, or
\* check(err))
scanLine(line, j, value, idx, rec, err) ==
    IF j >= Len(line) THEN [rec |-> rec, err |-> err, panic |-> FALSE]
    ELSE LET c == line[j + 1]
             pf == ParseFloat(value)
             k == idx - inputs
         IN  IF c = NL
             THEN IF k < 0 \/ k >= outputs \/ pf.err
                  THEN [rec |-> rec, err |-> pf.err, panic |-> TRUE]
                  ELSE [rec |-> [rec EXCEPT ![1][k] = Round(pf.val, scaleOut)],
                        err |-> FALSE, panic |-> FALSE]
             ELSE IF c = TAB
             THEN IF idx > inputs - 1
                  THEN IF k >= outputs \/ pf.err
                       THEN [rec |-> rec, err |-> pf.err, panic |-> TRUE]
                       ELSE scanLine(line, j + 1, << >>, idx + 1,
                                [rec EXCEPT ![1][k] = Round(pf.val, scaleOut)],
                                FALSE)
                  ELSE IF pf.err
                       THEN [rec |-> rec, err |-> TRUE, panic |-> TRUE]
                       ELSE scanLine(line, j + 1, << >>, idx + 1,
                                [rec EXCEPT ![0][idx] = Round(pf.val, scaleIn)],
                                FALSE)
             ELSE scanLine(line, j + 1, Append(value, c), idx, rec, err)

\* a data set of n samples as allocated: all zero
newData(n) ==
    [i \in 0 .. n - 1 |->
        [s \in 0 .. 1 |-> IF s = 0 THEN mat1D(inputs, 0) ELSE mat1D(outputs, 0)]]

\* a mutant of swap: the assignment copies one way only
swapCopies(p, i, j) == [p EXCEPT ![i] = p[j]]

\* patterns[i], patterns[j] = patterns[j], patterns[i]
swap(p, i, j) == [p EXCEPT ![i] = p[j], ![j] = p[i]]

\* ------------------------------------------------------------ classification
\* a mutant of argmaxFrom: the scan updates on greater-or-equal
RECURSIVE argmaxGE(_, _, _, _)
argmaxGE(v, outputIdx, max, ans) ==
    IF outputIdx >= outputs THEN ans
    ELSE IF v[outputIdx] >= max
         THEN argmaxGE(v, outputIdx + 1, v[outputIdx], outputIdx)
         ELSE argmaxGE(v, outputIdx + 1, max, ans)

RECURSIVE argmaxFrom(_, _, _, _)
\* the scan for the class of v, from outputIdx on
argmaxFrom(v, outputIdx, max, ans) ==
    IF outputIdx >= outputs THEN ans
    ELSE IF v[outputIdx] > max
         THEN argmaxFrom(v, outputIdx + 1, v[outputIdx], outputIdx)
         ELSE argmaxFrom(v, outputIdx + 1, max, ans)

\* ansNN := 0; max := 0.0; the scan
argmax(v) == argmaxFrom(v, 0, 0, 0)

\* sum of squared errors of the outputs out against the targets
sqErr(out, targets) ==
    SumTo([o \in 0 .. outputs - 1 |->
              Mul(out[o] - targets[o], out[o] - targets[o])], outputs - 1)

RECURSIVE validate(_, _, _, _)
\* the validation pass from sample k on, tSSE and ok being sse and n so far:
\* the network, tSSE and ok after the pass, and the last classification
validate(net, k, sse, n) ==
    LET p == validationData[k]
        n1 == guess(net, p[0])
        n2 == guess(n1, p[0])
        nn == argmax(n2.outAct)
        ansTest == argmax(p[1])
        sse1 == sse + sqErr(n1.outAct, p[1])
        ok1 == IF nn = ansTest THEN n + 1 ELSE n
    IN  IF k = testSize - 1
        THEN [net |-> n2, sse |-> sse1, ok |-> ok1,
              ansVec |-> n2.outAct, ansNN |-> nn]
        ELSE validate(n2, k + 1, sse1, ok1)

\* a mutant of listing: the listing also learns from the sample it shows
listingLearns(net, k) ==
    LET p == validationData[testSize - 1]
        g == guess(net, p[0])
        n1 == learn(g, p[1], alpha).net
    IN  [net |-> n1, ansVec |-> g.outAct, ansNN |-> argmax(g.outAct)]

RECURSIVE listing(_, _)
\* the test results listing from sample k on
listing(net, k) ==
    LET p == validationData[k]
        n1 == guess(net, p[0])
    IN  IF k = testSize - 1
        THEN [net |-> n1, ansVec |-> n1.outAct, ansNN |-> argmax(n1.outAct)]
        ELSE listing(n1, k + 1)

\* a mutant of epochDone: the threshold is that of the weights (0.1)
epochDoneWide(mse) == mse < weightStart

\* the test that ends the training loop
epochDone(mse) == mse < errThreshold

\* a mutant of jsonDoc: the input layer record is left out
jsonDocShort(net) ==
    [layers |-> <<
        [type |-> "hidden", activation |-> "logistic", neurons |-> hiddens,
         weights |-> net.hidWeights],
        [type |-> "output", activation |-> "logistic", neurons |-> outputs,
         weights |-> net.outWeights] >>]

\* the JSON document
jsonDoc(net) ==
    [layers |-> <<
        [type |-> "input", activation |-> "linear", neurons |-> inputs],
        [type |-> "hidden", activation |-> "logistic", neurons |-> hiddens,
         weights |-> net.hidWeights],
        [type |-> "output", activation |-> "logistic", neurons |-> outputs,
         weights |-> net.outWeights] >>]

\* ------------------------------------------------------------------ actions
\* the learning rates given with -r (the default, and 8.0)
Rates == { defaultAlpha, 8 * Unit }

\* the raw values typed at the prompt of the interactive test
InferRaw == { 0, scaleIn \div 2, scaleIn }

\* the runs: every flag combination on well-formed files, and every kind of
\* train.dat and of test.dat under the default network with rate 8.0
Scenarios ==
    { [h |-> h, a |-> a, s |-> s, tr |-> "ok", te |-> "ok"] :
        h \in { defaultHiddens, AltHiddens }, a \in Rates, s \in 0 .. MaxSeed }
    \cup { [h |-> defaultHiddens, a |-> 8 * Unit, s |-> 0, tr |-> k, te |-> "ok"] :
        k \in FileKinds }
    \cup { [h |-> defaultHiddens, a |-> 8 * Unit, s |-> 0, tr |-> "ok", te |-> k] :
        k \in FileKinds }

Blank(p) ==
    /\ pc = p
    /\ inAct = << >> /\ hidAct = << >> /\ outAct = << >>
    /\ hidWeights = << >> /\ outWeights = << >>
    /\ patterns = << >> /\ validationData = << >>
    /\ row = 0
    /\ epoch = 0 /\ iteration = 0 /\ lSSE = 0 /\ lMSE = 0
    /\ tSSE = 0 /\ tMSE = 0 /\ ok = 0
    /\ jsonFile = << >>
    /\ ansVec = mat1D(outputs, 0) /\ ansNN = 0
    /\ rand = 0 /\ parsed = << >>
    /\ lastGuess = << >> /\ learnLog = << >> /\ lastLearn = << >>
    /\ validated = << >>

Init ==
    /\ \E sc \in Scenarios :
          /\ hiddens = sc.h /\ alpha = sc.a /\ wSeed = sc.s
          /\ trainDat = sc.tr /\ testDat = sc.te
    /\ Blank("start")

\* main, up to the allocation of patterns
Start ==
    /\ pc = "start"
    /\ \E net \in { build(inputs, hiddens, outputs, wSeed) } :
           /\ inAct' = net.inAct /\ hidAct' = net.hidAct /\ outAct' = net.outAct
           /\ hidWeights' = net.hidWeights /\ outWeights' = net.outWeights
    /\ rand' = randAt(wSeed, (inputs + 1) * hiddens + (hiddens + 1) * outputs)
    /\ patterns' = newData(learningSize)
    /\ pc' = "open_train"
    /\ UNCHANGED << flagVars, validationData, row, trainVars, jsonFile, ansVec,
                    ansNN, histVars >>

OpenTrain ==
    /\ pc = "open_train"
    /\ pc' = IF openFails(trainDat) THEN "aborted" ELSE "parse_train"
    /\ row' = 0
    /\ UNCHANGED << flagVars, netVars, patterns, validationData, trainVars,
                    jsonFile, ansVec, ansNN, rand, histVars >>

\* one turn of the loop over the lines of train.dat
ParseTrainLine ==
    /\ pc = "parse_train"
    /\ \E rd \in { ReadString(trainDat, learningSize, 0, row) } :
       \E r \in { scanLine(rd.line, 0, << >>, 0, patterns[row], rd.err) } :
       \E done \in { ~r.panic /\ (r.err \/ row + 1 = learningSize) } :
           /\ patterns' = [patterns EXCEPT ![row] = r.rec]
           /\ pc' = IF r.panic THEN "aborted"
                    ELSE IF done THEN "shuffle" ELSE "parse_train"
           /\ row' = IF r.panic \/ r.err THEN row ELSE row + 1
           /\ parsed' = IF done THEN [patterns EXCEPT ![row] = r.rec]
                        ELSE parsed
    /\ UNCHANGED << flagVars, netVars, validationData, trainVars, jsonFile,
                    ansVec, ansNN, rand, lastGuess, learnLog, lastLearn,
                    validated >>

\* shuffle learning data: rand.Seed(7777), and the loop starts
Shuffle ==
    /\ pc = "shuffle"
    /\ rand' = 7777
    /\ row' = learningSize - 1
    /\ pc' = "swap"
    /\ UNCHANGED << flagVars, netVars, patterns, validationData, trainVars,
                    jsonFile, ansVec, ansNN, histVars >>

\* one turn of the shuffle loop (i is row); after the last one
\* validationData is allocated
ShuffleStep ==
    /\ pc = "swap"
    /\ row > 0
    /\ rand' = randNext(rand)
    /\ patterns' = swap(patterns, row, Intn(row + 1, randNext(rand)))
    /\ row' = row - 1
    /\ IF row - 1 > 0
       THEN pc' = "swap" /\ UNCHANGED validationData
       ELSE pc' = "open_valid" /\ validationData' = newData(testSize)
    /\ UNCHANGED << flagVars, netVars, trainVars, jsonFile, ansVec, ansNN,
                    histVars >>

OpenValid ==
    /\ pc = "open_valid"
    /\ pc' = IF openFails(testDat) THEN "aborted" ELSE "parse_valid"
    /\ row' = 0
    /\ UNCHANGED << flagVars, netVars, patterns, validationData, trainVars,
                    jsonFile, ansVec, ansNN, rand, histVars >>

\* one turn of the loop over the lines of test.dat; the last one goes on to
\* the training loop
ParseValidLine ==
    /\ pc = "parse_valid"
    /\ \E rd \in { ReadString(testDat, testSize, 200, row) } :
       \E r \in { scanLine(rd.line, 0, << >>, 0, validationData[row], rd.err) } :
       \E done \in { ~r.panic /\ (r.err \/ row + 1 = testSize) } :
           /\ validationData' = [validationData EXCEPT ![row] = r.rec]
           /\ pc' = IF r.panic THEN "aborted"
                    ELSE IF done THEN "guess" ELSE "parse_valid"
           /\ row' = IF r.panic \/ r.err THEN row ELSE row + 1
           /\ rand' = IF done THEN 8888 ELSE rand
    /\ epoch' = 0 /\ iteration' = 0 /\ lSSE' = 0 /\ lMSE' = 0
    /\ tSSE' = 0 /\ tMSE' = 0 /\ ok' = 0
    /\ UNCHANGED << flagVars, netVars, patterns, jsonFile, ansVec, ansNN,
                    histVars >>

\* a mutant of TrainGuess: the sample guessed is the one after the sample
\* learnt
TrainGuessNext ==
    /\ pc = "guess"
    /\ epoch < MaxEpochs
    /\ \E input \in { patterns[(iteration + 1) % learningSize][0] } :
       \E net \in { guess(Net, input) } :
           /\ inAct' = net.inAct /\ hidAct' = net.hidAct /\ outAct' = net.outAct
           /\ hidWeights' = net.hidWeights /\ outWeights' = net.outWeights
           /\ lastGuess' = input
    /\ pc' = "learn"
    /\ UNCHANGED << flagVars, patterns, validationData, row, trainVars,
                    jsonFile, ansVec, ansNN, rand, parsed, learnLog, lastLearn,
                    validated >>

\* train: guess(patterns[iteration][0])
TrainGuess ==
    /\ pc = "guess"
    /\ epoch < MaxEpochs
    /\ \E input \in { patterns[iteration][0] } :
       \E net \in { guess(Net, input) } :
           /\ inAct' = net.inAct /\ hidAct' = net.hidAct /\ outAct' = net.outAct
           /\ hidWeights' = net.hidWeights /\ outWeights' = net.outWeights
           /\ lastGuess' = input
    /\ pc' = "learn"
    /\ UNCHANGED << flagVars, patterns, validationData, row, trainVars,
                    jsonFile, ansVec, ansNN, rand, parsed, learnLog, lastLearn,
                    validated >>

\* a mutant of TrainLearn: lSSE is assigned, not added to
TrainLearnAssigns ==
    /\ pc = "learn"
    /\ \E r \in { learn(Net, patterns[iteration][1], alpha) } :
           /\ inAct' = r.net.inAct /\ hidAct' = r.net.hidAct
           /\ outAct' = r.net.outAct
           /\ hidWeights' = r.net.hidWeights /\ outWeights' = r.net.outWeights
           /\ lSSE' = r.sse
           /\ learnLog' = Append(learnLog, [sample |-> iteration, sse |-> r.sse])
           /\ lastLearn' = [outWeights |-> outWeights, hidAct |-> hidAct,
                            outDeltas |-> r.outDeltas, hidDeltas |-> r.hidDeltas]
    /\ iteration' = iteration + 1
    /\ pc' = IF iteration + 1 = learningSize THEN "boundary" ELSE "guess"
    /\ UNCHANGED << flagVars, patterns, validationData, row, epoch, lMSE, tSSE,
                    tMSE, ok, jsonFile, ansVec, ansNN, rand, parsed, lastGuess,
                    validated >>

\* train: lSSE += learn(patterns[iteration][1], alpha); iteration++
TrainLearn ==
    /\ pc = "learn"
    /\ \E r \in { learn(Net, patterns[iteration][1], alpha) } :
           /\ inAct' = r.net.inAct /\ hidAct' = r.net.hidAct
           /\ outAct' = r.net.outAct
           /\ hidWeights' = r.net.hidWeights /\ outWeights' = r.net.outWeights
           /\ lSSE' = lSSE + r.sse
           /\ learnLog' = Append(learnLog, [sample |-> iteration, sse |-> r.sse])
           /\ lastLearn' = [outWeights |-> outWeights, hidAct |-> hidAct,
                            outDeltas |-> r.outDeltas, hidDeltas |-> r.hidDeltas]
    /\ iteration' = iteration + 1
    /\ pc' = IF iteration + 1 = learningSize THEN "boundary" ELSE "guess"
    /\ UNCHANGED << flagVars, patterns, validationData, row, epoch, lMSE, tSSE,
                    tMSE, ok, jsonFile, ansVec, ansNN, rand, parsed, lastGuess,
                    validated >>

\* the epoch: training MSE, validation pass, and the test that ends training
Boundary ==
    /\ pc = "boundary"
    /\ epoch' = epoch + 1
    /\ lMSE' = Round(lSSE, learningSize)
    /\ \E v \in { validate(Net, 0, 0, 0) } :
           /\ inAct' = v.net.inAct /\ hidAct' = v.net.hidAct
           /\ outAct' = v.net.outAct
           /\ hidWeights' = v.net.hidWeights /\ outWeights' = v.net.outWeights
           /\ tSSE' = v.sse
           /\ ok' = v.ok
           /\ tMSE' = Round(v.sse, testSize)
           /\ ansVec' = v.ansVec /\ ansNN' = v.ansNN
           /\ IF epochDone(Round(v.sse, testSize))
              THEN pc' = "test" /\ UNCHANGED << iteration, lSSE >>
              ELSE pc' = "guess" /\ iteration' = 0 /\ lSSE' = 0
    /\ lastGuess' = validationData[testSize - 1][0]
    /\ validated' = [hidWeights |-> hidWeights, outWeights |-> outWeights]
    /\ UNCHANGED << flagVars, patterns, validationData, row, jsonFile, rand,
                    parsed, learnLog, lastLearn >>

\* the test results listing
TestListing ==
    /\ pc = "test"
    /\ \E l \in { listing(Net, 0) } :
           /\ inAct' = l.net.inAct /\ hidAct' = l.net.hidAct
           /\ outAct' = l.net.outAct
           /\ hidWeights' = l.net.hidWeights /\ outWeights' = l.net.outWeights
           /\ ansVec' = l.ansVec /\ ansNN' = l.ansNN
    /\ lastGuess' = validationData[testSize - 1][0]
    /\ pc' = "export"
    /\ UNCHANGED << flagVars, patterns, validationData, row, trainVars,
                    jsonFile, rand, parsed, learnLog, lastLearn, validated >>

\* saving weights to JSON file; os.Create may fail
Export ==
    /\ pc = "export"
    /\ \E created \in BOOLEAN :
          IF created
          THEN jsonFile' = Append(jsonFile, jsonDoc(Net)) /\ pc' = "infer"
          ELSE jsonFile' = jsonFile /\ pc' = "aborted"
    /\ UNCHANGED << flagVars, netVars, patterns, validationData, row,
                    trainVars, ansVec, ansNN, rand, histVars >>

\* one turn of the interactive test loop
Infer ==
    /\ pc = "infer"
    /\ \E raw \in InferRaw :
       \E testSet \in { mat1D(inputs, Round(raw * Unit, scaleIn)) } :
       \E net \in { guess(guess(Net, testSet), testSet) } :
              /\ inAct' = net.inAct /\ hidAct' = net.hidAct
              /\ outAct' = net.outAct
              /\ hidWeights' = net.hidWeights /\ outWeights' = net.outWeights
              /\ ansVec' = net.outAct /\ ansNN' = argmax(net.outAct)
              /\ lastGuess' = testSet
    /\ UNCHANGED << pc, flagVars, patterns, validationData, row, trainVars,
                    jsonFile, rand, parsed, learnLog, lastLearn, validated >>

Next ==
    \/ Start
    \/ OpenTrain
    \/ ParseTrainLine
    \/ Shuffle
    \/ ShuffleStep
    \/ OpenValid
    \/ ParseValidLine
    \/ TrainGuess
    \/ TrainLearn
    \/ Boundary
    \/ TestListing
    \/ Export
    \/ Infer

Spec == Init /\ [][Next]_vars

\* the classification scan alone, on every vector with small entries
InitArgmax ==
    /\ hiddens = defaultHiddens /\ alpha = defaultAlpha /\ wSeed = 0
    /\ trainDat = "ok" /\ testDat = "ok"
    /\ Blank("argmax")

Classify ==
    /\ pc = "argmax"
    /\ \E v \in [0 .. outputs - 1 -> -MaxVal .. MaxVal] :
          ansVec' = v /\ ansNN' = argmax(v)
    /\ UNCHANGED << pc, flagVars, netVars, patterns, validationData, row,
                    trainVars, jsonFile, rand, histVars >>

NextArgmax == Classify

SpecArgmax == InitArgmax /\ [][NextArgmax]_vars

\* ------------------------------------------------------------------- claims
TrainPcs == { "guess", "learn", "boundary" }
PostPcs == { "test", "export", "infer" }
Built == pc \notin { "start", "argmax" }

RECURSIVE SumRange(_, _, _)
\* f[lo] + ... + f[hi], by halves
SumRange(f, lo, hi) ==
    IF lo > hi THEN 0
    ELSE IF lo = hi THEN f[lo]
    ELSE SumRange(f, lo, (lo + hi) \div 2)
           + SumRange(f, (lo + hi) \div 2 + 1, hi)

\* the class the classification rule gives v: the least index of a maximum
\* that is greater than 0, and 0 when no entry is greater than 0
IsBest(v, i) == v[i] > 0 /\ \A k \in 0 .. outputs - 1 : v[i] >= v[k]
RuleClass(v) ==
    IF \E i \in 0 .. outputs - 1 : v[i] > 0
    THEN CHOOSE i \in 0 .. outputs - 1 :
            IsBest(v, i) /\ \A k \in 0 .. i - 1 : ~IsBest(v, k)
    ELSE 0

\* C1: once the network is built, whatever guess and learn calls have been
\* made, the bias slots inAct[inputs] and hidAct[hiddens] are exactly 1.0.
C1_BiasSlots ==
    Built => inAct[inputs] = Unit /\ hidAct[hiddens] = Unit

\* C1 witness: an interactive guess after a whole epoch of guess and learn
\* calls, the bias slots still 1.0
C1_Witness ==
    /\ pc = "infer" /\ Len(learnLog) >= learningSize
    /\ lastGuess = mat1D(inputs, Unit)
    /\ inAct[inputs] = Unit /\ hidAct[hiddens] = Unit

\* C2: the training loop is left only at an epoch boundary, reached after
\* exactly learningSize training steps, and only when that boundary's
\* validation MSE is below 0.01; at a boundary whose validation MSE is at
\* least 0.01 training goes on with another epoch from iteration 0; so past
\* the training loop the validation MSE is below 0.01.
C2_Convergence ==
    /\ [][ /\ (pc \in TrainPcs /\ pc' \notin TrainPcs) =>
                /\ pc = "boundary" /\ pc' = "test"
                /\ iteration = learningSize
                /\ Len(learnLog) = epoch' * learningSize
                /\ tMSE' < errThreshold
           /\ (pc = "boundary" /\ tMSE' >= errThreshold) =>
                /\ pc' = "guess" /\ iteration' = 0
                /\ epoch' = epoch + 1 ]_vars
    /\ [](pc \in PostPcs => tMSE < errThreshold)

\* C2 witness: converged at the second boundary, after the first boundary
\* sent the trainer into another epoch
C2_Witness == pc = "test" /\ epoch = 2 /\ tMSE < errThreshold

\* a data file holds its n lines, each of inputs + outputs numerals
\* separated by TAB and ended by NL
GoodLine(l) ==
    /\ Len(l) > 0 /\ l[Len(l)] = NL
    /\ \A j \in 1 .. Len(l) - 1 : l[j] = TAB \/ IsDigit(l[j])
    /\ Cardinality({ j \in 1 .. Len(l) : l[j] = TAB }) = inputs + outputs - 1
    /\ IsDigit(l[1])
    /\ \A j \in 1 .. Len(l) - 1 : l[j] = TAB => IsDigit(l[j + 1])
FileComplete(kind, n, base) ==
    /\ ~openFails(kind)
    /\ lineCount(kind, n) >= n
    /\ \A i \in 0 .. n - 1 : GoodLine(fileLine(kind, n, base, i))

\* C3: training never begins unless train.dat held 110 and test.dat 40
\* well-formed lines
C3_LoadAborts ==
    pc \in TrainPcs =>
        /\ FileComplete(trainDat, learningSize, 0)
        /\ FileComplete(testDat, testSize, 200)

\* C4: the class of a vector is the least index of a maximum greater than 0,
\* and 0 when no entry is greater than 0; so equal entries and vectors
\* without a positive entry give class 0.
C4_Argmax ==
    pc = "argmax" =>
        /\ ansNN = RuleClass(ansVec)
        /\ (\A i \in 0 .. outputs - 1 : ansVec[i] = ansVec[0]) => ansNN = 0
        /\ (\A i \in 0 .. outputs - 1 : ansVec[i] <= 0) => ansNN = 0

\* C4 witness: equal maxima greater than 0, classified 0
C4_Witness ==
    /\ pc = "argmax" /\ ansVec[0] > 0
    /\ \A i \in 0 .. outputs - 1 : ansVec[i] = ansVec[0]
    /\ ansNN = 0

\* C5: once built, the weights change in a learn call only; past the
\* training loop they are the weights the converging validation pass ran
\* on, and so are the exported ones.
C5_OnlyLearn ==
    /\ [][(Built /\ pc # "learn") => UNCHANGED weightVars]_vars
    /\ [](pc \in PostPcs =>
            /\ hidWeights = validated.hidWeights
            /\ outWeights = validated.outWeights)
    /\ [](Len(jsonFile) > 0 =>
            /\ jsonFile[1].layers[2].weights = validated.hidWeights
            /\ jsonFile[1].layers[3].weights = validated.outWeights
            /\ jsonFile[1].layers[2].weights = hidWeights
            /\ jsonFile[1].layers[3].weights = outWeights)

\* C5 witness: an interactive guess made after the export
C5_Witness ==
    /\ pc = "infer" /\ Len(jsonFile) > 0
    /\ lastGuess = mat1D(inputs, Unit \div 2)
    /\ hidWeights = validated.hidWeights

IsMatrix(m, rows, cols) ==
    /\ DOMAIN m = 0 .. rows - 1
    /\ \A i \in 0 .. rows - 1 : DOMAIN m[i] = 0 .. cols - 1

\* C6: the document is written at most once, by the export step, only after
\* convergence, and the interactive test runs with it written; it holds
\* three layer records, with weights of (inputs+1) x hiddens and
\* (hiddens+1) x outputs, 9x3 and 4x2 for the default network; the weight
\* matrices have these shapes from build on.
C6_Export ==
    /\ Len(jsonFile) <= 1
    /\ Len(jsonFile) = 1 => (pc = "infer" /\ epoch >= 1 /\ tMSE < errThreshold)
    /\ pc = "infer" => Len(jsonFile) = 1
    /\ \A d \in 1 .. Len(jsonFile) :
          /\ Len(jsonFile[d].layers) = 3
          /\ jsonFile[d].layers[1].type = "input"
          /\ jsonFile[d].layers[2].type = "hidden"
          /\ jsonFile[d].layers[3].type = "output"
          /\ IsMatrix(jsonFile[d].layers[2].weights, inputs + 1, hiddens)
          /\ IsMatrix(jsonFile[d].layers[3].weights, hiddens + 1, outputs)
          /\ hiddens = defaultHiddens =>
                /\ IsMatrix(jsonFile[d].layers[2].weights, 9, 3)
                /\ IsMatrix(jsonFile[d].layers[3].weights, 4, 2)
    /\ Built => /\ IsMatrix(hidWeights, inputs + 1, hiddens)
                /\ IsMatrix(outWeights, hiddens + 1, outputs)

\* C6 witness: the default network, exported
C6_Witness ==
    pc = "infer" /\ hiddens = defaultHiddens /\ Len(jsonFile) = 1

\* C7: when learn is about to be called, the latest guess call was made on
\* the input of the training sample whose target learn gets, and the input
\* activations are that input.
C7_GuessBeforeLearn ==
    pc = "learn" =>
        /\ lastGuess = patterns[iteration][0]
        /\ \A i \in 0 .. inputs - 1 : inAct[i] = patterns[iteration][0][i]

\* C7 witness: the first learn call after an epoch boundary, whose
\* validation pass ended on another input
C7_Witness ==
    /\ pc = "learn" /\ iteration = 0 /\ epoch >= 1
    /\ lastGuess # validationData[testSize - 1][0]

\* the output deltas of a learn call on the current activations
OutDeltaOf(targets) ==
    [o \in 0 .. outputs - 1 |->
        Mul(Mul(outAct[o], Unit - outAct[o]), outAct[o] - targets[o])]
\* the hidden delta of unit h for output deltas od, summed over weights ow
HidDeltaOf(act, od, ow, h) ==
    Mul(Mul(act[h], Unit - act[h]),
        SumRange([o \in 0 .. outputs - 1 |-> Mul(od[o], ow[h][o])],
                 0, outputs - 1))

\* C8: a learn call subtracts rate * outDelta[o] * hidAct[h] from every
\* output weight, the bias row included; subtracts from every hidden weight
\* rate * hidDelta[h] * inAct[i] with hidDelta[h] summed over the output
\* weights as already updated; leaves the activations alone; and returns the
\* squared error of the activations it found.
C8_LearnOrder ==
    [][pc = "learn" =>
        LET t == patterns[iteration][1]
            od == OutDeltaOf(t)
        IN  /\ \A h \in 0 .. hiddens : \A o \in 0 .. outputs - 1 :
                   outWeights'[h][o] =
                       outWeights[h][o] - Mul(alpha, Mul(od[o], hidAct[h]))
            /\ \A i \in 0 .. inputs : \A h \in 0 .. hiddens - 1 :
                   hidWeights'[i][h] =
                       hidWeights[i][h]
                         - Mul(alpha,
                               Mul(HidDeltaOf(hidAct, od, outWeights', h),
                                   inAct[i]))
            /\ UNCHANGED actVars
            /\ lSSE' - lSSE =
                   SumRange([o \in 0 .. outputs - 1 |->
                                Mul(t[o] - outAct[o], t[o] - outAct[o])],
                            0, outputs - 1)
            /\ lastLearn'.outDeltas = od ]_vars

\* C8 witness: a learn call whose hidden deltas differ from those the
\* output weights before the update would have given
C8_Witness ==
    /\ pc \in TrainPcs /\ Len(learnLog) > 0
    /\ \E h \in 0 .. hiddens - 1 :
          lastLearn.hidDeltas[h] #
              HidDeltaOf(lastLearn.hidAct, lastLearn.outDeltas,
                         lastLearn.outWeights, h)

\* q holds the samples of p, each as often as p does
IsPerm(p, q) ==
    /\ DOMAIN p = DOMAIN q
    /\ \A i \in DOMAIN q :
          Cardinality({ k \in DOMAIN p : p[k] = q[i] })
              = Cardinality({ k \in DOMAIN q : q[k] = q[i] })

\* C9: the shuffle leaves a permutation of the parsed samples (inputs
\* paired with their targets); after it the training set never changes; the
\* k-th learn call of a run is on sample (k-1) mod learningSize, so every
\* epoch visits the samples 0 .. learningSize-1 once each, in this order.
C9_TrainingOrder ==
    /\ [][(pc = "swap" /\ pc' # "swap") => IsPerm(patterns', parsed)]_vars
    /\ [][(pc \in TrainPcs \cup PostPcs \cup { "open_valid", "parse_valid" })
            => patterns' = patterns]_vars
    /\ [](\A k \in 1 .. Len(learnLog) :
            learnLog[k].sample = (k - 1) % learningSize)
    /\ [](pc \in { "guess", "learn" } => iteration \in 0 .. learningSize - 1)
    /\ [](pc = "boundary" => Len(learnLog) = (epoch + 1) * learningSize)

\* C9 witness: an epoch boundary of a run whose shuffle moved the samples
C9_Witness ==
    /\ pc = "boundary" /\ epoch >= 1 /\ trainDat = "ok"
    /\ patterns # parsed
    /\ patterns[0] # parsed[0]

\* the network the latest validation pass found, its activations aside
ValidatedNet ==
    [inAct |-> mat1D(inputs + 1, Unit), hidAct |-> mat1D(hiddens + 1, Unit),
     outAct |-> mat1D(outputs, Unit),
     hidWeights |-> validated.hidWeights, outWeights |-> validated.outWeights]
\* its outputs on validation sample k
ValidatedOut(k) == guess(ValidatedNet, validationData[k][0]).outAct

\* C10: after an epoch boundary the training MSE is the sum of the results
\* of the learningSize learn calls of that epoch over learningSize, the
\* validation SSE and the accuracy count are those of the testSize samples
\* of that boundary's pass, and the iteration index and the training SSE
\* are zero when the next epoch starts; the epoch counter is the number of
\* completed passes; the accuracy count is within 0 .. testSize.
C10_Accumulators ==
    /\ ok \in 0 .. testSize
    /\ (pc \in { "guess", "learn" } \cup PostPcs) =>
          epoch * learningSize + (IF pc \in PostPcs THEN 0 ELSE iteration)
              = Len(learnLog)
    /\ (epoch >= 1 /\ (pc = "test" \/ (pc = "guess" /\ iteration = 0))) =>
          /\ lMSE = Round(SumRange([k \in 1 .. Len(learnLog) |->
                                       learnLog[k].sse],
                                   (epoch - 1) * learningSize + 1,
                                   epoch * learningSize),
                          learningSize)
          /\ tSSE = SumRange([k \in 0 .. testSize - 1 |->
                                 sqErr(ValidatedOut(k), validationData[k][1])],
                             0, testSize - 1)
          /\ tMSE = Round(tSSE, testSize)
          /\ ok = Cardinality({ k \in 0 .. testSize - 1 :
                     RuleClass(ValidatedOut(k))
                         = RuleClass(validationData[k][1]) })
    /\ (pc = "guess" /\ iteration = 0) => lSSE = 0

\* C10 witness: the start of a third epoch, the second one's sums reported
C10_Witness ==
    /\ pc = "guess" /\ iteration = 0 /\ epoch = 2
    /\ lMSE > 0 /\ ok > 0 /\ ok < testSize

====
